---- MODULE Spec2Model ----
(***************************************************************************)
(* Model of scripts/seed-performance-data.py: main() seeds deployments,    *)
(* recipients, deployment/recipient join rows and conversions into an      *)
(* SQLite database inside one implicit transaction.                        *)
(*                                                                         *)
(* Abstractions, all stated here:                                          *)
(*  - a table is the number of its rows (the script only INSERTs); the     *)
(*    rows of the run in progress are kept in the script's own lists;      *)
(*  - real numbers are fixed point: rates, the saturation factor and the   *)
(*    random draw in units of 1/Milli, x**0.1 in units of 1/PowScale;      *)
(*  - the configured quantities and half_sat are divided by QuantityScale  *)
(*    (the saturation factor depends on quantity/half_sat only);           *)
(*  - time is in whole seconds, the resolution of '%Y-%m-%d %H:%M:%S'.     *)
(***************************************************************************)
EXTENDS Integers, Sequences, FiniteSets, TLC

VARIABLES
    \* ---- environment: what exists before main() runs
    retail_stores,          \* names of the rows the store SELECT matches, in table order
    campaigns,              \* number of rows of table campaigns
    performance_tiers,      \* store name -> [base_rate, quantities]      (lines 48-52)
    id_space,               \* the identifiers generate_id can return in this behaviour
    now,                    \* the wall clock, in seconds
    \* ---- the database file and the connection
    db,                     \* committed row counts per table
    pending,                \* row counts inserted in the open transaction
    conn,                   \* "none" | "open" | "closed"
    \* ---- main(): position and locals
    pc,
    retval,                 \* value of the return statement being executed, "unset" if none
    status,                 \* what main() returned: "running" | "None" | 0 | 1
    stores, s, store_name,
    i, quantity, days_ago, created_at,
    actual_rate, conversion_count,
    recipient_tracking_ids, tracking_id, j,
    converters, c,
    total_deployments, total_recipients, total_conversions,
    \* ---- history variables (not in the program)
    invocation,             \* how many times main() has been started
    db_at_start,            \* db when this invocation started
    written,                \* row counts this invocation has INSERTed so far
    n_commit, n_rollback, n_close,  \* calls on the connection in this invocation
    op_after_close,         \* a database operation was issued on a closed connection
    converter_positions,    \* positions random.sample drew in recipient_tracking_ids
    run_conversions         \* tracking ids of the conversion rows inserted for this run

envv    == <<retail_stores, campaigns, performance_tiers, id_space>>
dbv     == <<db, pending, conn>>
ctl     == <<pc, retval, status>>
storev  == <<stores, s, store_name>>
runv    == <<i, quantity, days_ago, created_at>>
ratev   == <<actual_rate, conversion_count>>
recv    == <<recipient_tracking_ids, tracking_id, j>>
convv   == <<converters, c>>
totalv  == <<total_deployments, total_recipients, total_conversions>>
histv   == <<invocation, db_at_start, written, n_commit, n_rollback, n_close, op_after_close>>
ghostv  == <<converter_positions, run_conversions>>
vars    == <<envv, now, dbv, ctl, storev, runv, ratev, recv, convv, totalv, histv, ghostv>>

----------------------------------------------------------------------------
(* Bounds of the model *)

QuantityScale == 200      \* divisor of the configured quantities and of half_sat
NoiseSteps == 4           \* random.random() returns k/NoiseSteps, k in 0..NoiseSteps-1
MaxInvocations == 2       \* how many times the script is run in sequence
NumIds == 2               \* identifiers generate_id draws from in SpecGen
MaxRunQuantity == 3       \* largest quantity drawn in SpecGen
Milli == 1000             \* fixed-point unit of rates, saturation factor, random draw
PowScale == 100           \* fixed-point unit of x**0.1
MaxClockTicks == 1        \* latest reading of the clock, in seconds after the start

(* Program constants *)

half_sat_src == 2000      \* line 81
FirstOffsetDays == 10     \* line 69
SpacingDays == 15         \* line 69
SecondsPerDay == 86400    \* timedelta(days=1)

----------------------------------------------------------------------------
(* Helpers *)

Max(a, b) == IF a >= b THEN a ELSE b
Min(a, b) == IF a <= b THEN a ELSE b
Range(f) == {f[x] : x \in DOMAIN f}

Tables == {"deployments", "recipients", "joins", "conversions"}
NoRows == [t \in Tables |-> 0]
AddRow(cnt, t) == [cnt EXCEPT ![t] = @ + 1]
AddRows(a, b) == [t \in Tables |-> a[t] + b[t]]

----------------------------------------------------------------------------
(* Configuration, lines 28 and 48-52 *)

StoreNames == <<"Portland Central", "Phoenix North", "Downtown Miami Store">>

SrcQuantities == <<300, 500, 800, 1200, 2000, 3500>>

Quantities == [k \in 1..Len(SrcQuantities) |-> SrcQuantities[k] \div QuantityScale]

half_sat == half_sat_src \div QuantityScale

Tiers ==
    [n \in Range(StoreNames) |->
        [base_rate |-> CASE n = "Portland Central" -> 5 * Milli
                         [] n = "Phoenix North" -> 3 * Milli
                         [] n = "Downtown Miami Store" -> (5 * Milli) \div 2,
         quantities |-> Quantities]]

RateFloor == Milli \div 2

----------------------------------------------------------------------------
(* Arithmetic of lines 82-87 and 109 *)

\* r**n for r in units of 1/PowScale, truncating after every multiplication
RECURSIVE FixPow(_, _)
FixPow(r, n) == IF n = 0 THEN PowScale ELSE (FixPow(r, n - 1) * r) \div PowScale

\* the largest r >= r0, r at most 3, with r**10 <= x, searched upwards from r0
RECURSIVE RootSearch(_, _)
RootSearch(x, r) ==
    IF r < 3 * PowScale /\ FixPow(r + 1, 10) <= x * PowScale
      THEN RootSearch(x, r + 1) ELSE r

\* x**0.1 for x >= 1, in units of 1/PowScale: the largest r with r**10 <= x
Root10(x) == RootSearch(x, PowScale)

\* x**0.9 = x / x**0.1, in units of 1/PowScale
Pow09(x) == IF x = 0 THEN 0 ELSE (x * PowScale * PowScale) \div Root10(x)

\* line 82, in units of 1/Milli
saturation_factor(q) == (Pow09(q) * Milli) \div (Pow09(half_sat) + Pow09(q))

\* line 83: base_rate * (0.5 + 0.5 * saturation_factor)
effective_rate(base_rate, q) == (base_rate * (Milli + saturation_factor(q))) \div (2 * Milli)

\* random.random(): a value of [0.0, 1.0), in units of 1/Milli
RandomValues == {(k * Milli) \div NoiseSteps : k \in 0..(NoiseSteps - 1)}

\* line 86: (random.random() - 0.5) * 0.4
Noise(rnd) == ((rnd - Milli \div 2) * 4) \div 10

\* effective_rate * (1 + noise), line 87 before the floor
NoisyRate(base_rate, q, rnd) == (effective_rate(base_rate, q) * (Milli + Noise(rnd))) \div Milli

\* as ActualRate, with the floor of line 87 left out
ActualRate_NoFloor(base_rate, q, rnd) == NoisyRate(base_rate, q, rnd)

\* line 87
ActualRate(base_rate, q, rnd) == Max(RateFloor, NoisyRate(base_rate, q, rnd))

\* Python's round(): to nearest, ties to the even integer; n/d with d > 0
Round(n, d) ==
    LET f == n \div d
        r == n % d
    IN  IF 2 * r < d THEN f
        ELSE IF 2 * r > d THEN f + 1
        ELSE IF f % 2 = 0 THEN f ELSE f + 1

\* line 109: round((quantity * actual_rate) / 100)
ConversionCount(q, rate) == Round(q * rate, 100 * Milli)

\* as DaysAgo, with the same offset for every index
DaysAgo_NoSpacing(idx) == FirstOffsetDays

\* line 69
DaysAgo(idx) == FirstOffsetDays + idx * SpacingDays

\* line 70: (datetime.now() - timedelta(days=days_ago)).strftime(...), whole seconds
CreatedAt(t, d) == t - d * SecondsPerDay

----------------------------------------------------------------------------
(* Library calls *)

\* generate_id(), lines 12-15: any identifier of the identifier space
generate_id == id_space

\* all ways to draw k positions out of 1..n one after the other, none twice
RECURSIVE Arrangements(_, _)
Arrangements(n, k) ==
    IF k = 0 THEN {<<>>}
    ELSE UNION {{Append(p, x) : x \in (1..n) \ Range(p)} : p \in Arrangements(n, k - 1)}

\* random.sample(population, k) raises ValueError unless 0 <= k <= len(population)
SampleRaises(population, k) == k < 0 \/ k > Len(population)

\* as SamplePositions, drawing with replacement (random.choices)
SamplePositions_WithReplacement(population, k) == [1..k -> 1..Len(population)]

\* random.sample(population, k): the positions it may select, in selection order
SamplePositions(population, k) == Arrangements(Len(population), k)

\* the clock readings datetime.now() may return after reading t
Readings(t) == {t2 \in {t, t + 1} : t2 <= MaxClockTicks}

----------------------------------------------------------------------------
(* main(), lines 17-168 *)

\* the frame of main(): every local before its first assignment
FrameInit ==
    /\ stores = <<>> /\ s = 0 /\ store_name = ""
    /\ i = 0 /\ quantity = 0 /\ days_ago = 0 /\ created_at = 0
    /\ actual_rate = 0 /\ conversion_count = 0
    /\ recipient_tracking_ids = <<>> /\ tracking_id = 0 /\ j = 0
    /\ converters = <<>> /\ c = 0
    /\ total_deployments = 0 /\ total_recipients = 0 /\ total_conversions = 0
    /\ converter_positions = <<>> /\ run_conversions = <<>>

\* the frame is dropped when main() returns
FrameDrop ==
    /\ stores' = <<>> /\ s' = 0 /\ store_name' = ""
    /\ i' = 0 /\ quantity' = 0 /\ days_ago' = 0 /\ created_at' = 0
    /\ actual_rate' = 0 /\ conversion_count' = 0
    /\ recipient_tracking_ids' = <<>> /\ tracking_id' = 0 /\ j' = 0
    /\ converters' = <<>> /\ c' = 0
    /\ total_deployments' = 0 /\ total_recipients' = 0 /\ total_conversions' = 0
    /\ converter_positions' = <<>> /\ run_conversions' = <<>>

\* a statement is issued on the connection
Touch == op_after_close' = (op_after_close \/ conn # "open")

\* lines 18-21: sqlite3.connect, conn.cursor
Connect ==
    /\ pc = "start"
    /\ conn' = "open"
    /\ pc' = "select_stores"
    /\ UNCHANGED <<envv, now, db, pending, retval, status, storev, runv, ratev, recv,
                   convv, totalv, histv, ghostv>>

\* as SelectStores, with "return 1" at line 36
SelectStores_Return1 ==
    /\ pc = "select_stores"
    /\ stores' = retail_stores
    /\ Touch
    /\ IF Len(retail_stores) = 0
         THEN retval' = "1" /\ pc' = "finally"
         ELSE retval' = retval /\ pc' = "select_campaign"
    /\ UNCHANGED <<envv, now, dbv, status, s, store_name, runv, ratev, recv, convv, totalv,
                   invocation, db_at_start, written, n_commit, n_rollback, n_close, ghostv>>

\* lines 25-36: the store SELECT; return on an empty result
SelectStores ==
    /\ pc = "select_stores"
    /\ stores' = retail_stores
    /\ Touch
    /\ IF Len(retail_stores) = 0
         THEN retval' = "None" /\ pc' = "finally"
         ELSE retval' = retval /\ pc' = "select_campaign"
    /\ UNCHANGED <<envv, now, dbv, status, s, store_name, runv, ratev, recv, convv, totalv,
                   invocation, db_at_start, written, n_commit, n_rollback, n_close, ghostv>>

\* lines 39-56: the campaign SELECT; return when there is none; totals start at 0
SelectCampaign ==
    /\ pc = "select_campaign"
    /\ Touch
    /\ IF campaigns = 0
         THEN retval' = "None" /\ pc' = "finally"
         ELSE retval' = retval /\ pc' = "for_store"
    /\ total_deployments' = 0 /\ total_recipients' = 0 /\ total_conversions' = 0
    /\ UNCHANGED <<envv, now, dbv, status, storev, runv, ratev, recv, convv,
                   invocation, db_at_start, written, n_commit, n_rollback, n_close, ghostv>>

\* as ForStore, with conn.commit() once per store instead of once per batch
ForStore_CommitEach ==
    /\ pc = "for_store"
    /\ db' = AddRows(db, pending)
    /\ pending' = NoRows
    /\ IF s < Len(stores)
         THEN /\ s' = s + 1
              /\ store_name' = stores[s + 1]
              /\ i' = 0
              /\ pc' = "for_quantity"
         ELSE /\ pc' = "commit"
              /\ UNCHANGED <<s, store_name, i>>
    /\ UNCHANGED <<envv, now, conn, retval, status, stores, quantity, days_ago, created_at,
                   ratev, recv, convv, totalv, histv, ghostv>>

\* lines 59-64 and 121: next store of the result, or leave the loop for the commit.
\* Every fetched name is a key of performance_tiers (line 28), so line 62 is not taken.
ForStore ==
    /\ pc = "for_store"
    /\ IF s < Len(stores)
         THEN /\ s' = s + 1
              /\ store_name' = stores[s + 1]
              /\ i' = 0
              /\ pc' = IF stores[s + 1] \in DOMAIN performance_tiers
                         THEN "for_quantity" ELSE "for_store"
         ELSE /\ pc' = "commit"
              /\ UNCHANGED <<s, store_name, i>>
    /\ UNCHANGED <<envv, now, dbv, retval, status, stores, quantity, days_ago, created_at,
                   ratev, recv, convv, totalv, histv, ghostv>>

\* lines 67-70: next quantity level, its offset and timestamp; or back to the store loop
ForQuantity ==
    /\ pc = "for_quantity"
    /\ IF i < Len(performance_tiers[store_name].quantities)
         THEN /\ quantity' = performance_tiers[store_name].quantities[i + 1]
              /\ days_ago' = DaysAgo(i)
              /\ now' \in Readings(now)
              /\ created_at' = CreatedAt(now', DaysAgo(i))
              /\ pc' = "insert_deployment"
         ELSE /\ pc' = "for_store"
              /\ UNCHANGED <<quantity, days_ago, now, created_at>>
    /\ UNCHANGED <<envv, dbv, retval, status, storev, i, ratev, recv, convv, totalv,
                   histv, ghostv>>

\* lines 73-78: INSERT INTO retail_campaign_deployments
InsertDeployment ==
    /\ pc = "insert_deployment"
    /\ \E deployment_id \in generate_id :
         /\ pending' = AddRow(pending, "deployments")
         /\ written' = AddRow(written, "deployments")
    /\ Touch
    /\ total_deployments' = total_deployments + 1
    /\ pc' = "rate"
    /\ UNCHANGED <<envv, now, db, conn, retval, status, storev, runv, ratev, recv, convv,
                   total_recipients, total_conversions,
                   invocation, db_at_start, n_commit, n_rollback, n_close, ghostv>>

\* lines 81-90: the rate of this run, and an empty recipient list
ComputeRate ==
    /\ pc = "rate"
    /\ \E rnd \in RandomValues :
         actual_rate' = ActualRate(performance_tiers[store_name].base_rate, quantity, rnd)
    /\ recipient_tracking_ids' = <<>>
    /\ j' = 0
    /\ converter_positions' = <<>>
    /\ run_conversions' = <<>>
    /\ pc' = "for_recipient"
    /\ UNCHANGED <<envv, now, dbv, retval, status, storev, runv, conversion_count,
                   tracking_id, convv, totalv, histv>>

\* lines 91-98: next recipient: two fresh ids and INSERT INTO recipients; or on to line 109
ForRecipient ==
    /\ pc = "for_recipient"
    /\ IF j < quantity
         THEN /\ \E recipient_id \in generate_id : \E tid \in generate_id :
                   tracking_id' = tid
              /\ pending' = AddRow(pending, "recipients")
              /\ written' = AddRow(written, "recipients")
              /\ Touch
              /\ pc' = "insert_join"
         ELSE /\ pc' = "sample"
              /\ UNCHANGED <<tracking_id, pending, written, op_after_close>>
    /\ UNCHANGED <<envv, now, db, conn, retval, status, storev, runv, ratev,
                   recipient_tracking_ids, j, convv, totalv,
                   invocation, db_at_start, n_commit, n_rollback, n_close, ghostv>>

\* as InsertJoin, without line 106
InsertJoin_NoCount ==
    /\ pc = "insert_join"
    /\ pending' = AddRow(pending, "joins")
    /\ written' = AddRow(written, "joins")
    /\ Touch
    /\ recipient_tracking_ids' = Append(recipient_tracking_ids, tracking_id)
    /\ j' = j + 1
    /\ pc' = "for_recipient"
    /\ UNCHANGED <<envv, now, db, conn, retval, status, storev, runv, ratev, tracking_id,
                   convv, totalv,
                   invocation, db_at_start, n_commit, n_rollback, n_close, ghostv>>

\* lines 100-106: INSERT INTO retail_deployment_recipients, remember the tracking id
InsertJoin ==
    /\ pc = "insert_join"
    /\ \E join_id \in generate_id :
         /\ pending' = AddRow(pending, "joins")
         /\ written' = AddRow(written, "joins")
    /\ Touch
    /\ recipient_tracking_ids' = Append(recipient_tracking_ids, tracking_id)
    /\ total_recipients' = total_recipients + 1
    /\ j' = j + 1
    /\ pc' = "for_recipient"
    /\ UNCHANGED <<envv, now, db, conn, retval, status, storev, runv, ratev, tracking_id,
                   convv, total_deployments, total_conversions,
                   invocation, db_at_start, n_commit, n_rollback, n_close, ghostv>>

\* as Sample, without the min() of line 110
Sample_NoClamp ==
    /\ pc = "sample"
    /\ LET count == ConversionCount(quantity, actual_rate)
       IN  /\ conversion_count' = count
           /\ IF SampleRaises(recipient_tracking_ids, count)
                THEN /\ pc' = "except"
                     /\ UNCHANGED <<converters, converter_positions>>
                ELSE /\ \E pos \in SamplePositions(recipient_tracking_ids, count) :
                          /\ converter_positions' = pos
                          /\ converters' = [x \in 1..count |-> recipient_tracking_ids[pos[x]]]
                     /\ pc' = "for_converter"
    /\ c' = 0
    /\ UNCHANGED <<envv, now, dbv, retval, status, storev, runv, actual_rate, recv, totalv,
                   histv, run_conversions>>

\* lines 109-110: conversion_count and the sampled converters
Sample ==
    /\ pc = "sample"
    /\ LET count == ConversionCount(quantity, actual_rate)
           k == Min(count, Len(recipient_tracking_ids))
       IN  /\ conversion_count' = count
           /\ IF SampleRaises(recipient_tracking_ids, k)
                THEN /\ pc' = "except"
                     /\ UNCHANGED <<converters, converter_positions>>
                ELSE /\ \E pos \in SamplePositions(recipient_tracking_ids, k) :
                          /\ converter_positions' = pos
                          /\ converters' = [x \in 1..k |-> recipient_tracking_ids[pos[x]]]
                     /\ pc' = "for_converter"
    /\ c' = 0
    /\ UNCHANGED <<envv, now, dbv, retval, status, storev, runv, actual_rate, recv, totalv,
                   histv, run_conversions>>

\* lines 112-119: INSERT INTO conversions for the next converter; or the run is done
ForConverter ==
    /\ pc = "for_converter"
    /\ IF c < Len(converters)
         THEN /\ \E conversion_id \in generate_id :
                   /\ pending' = AddRow(pending, "conversions")
                   /\ written' = AddRow(written, "conversions")
              /\ Touch
              /\ run_conversions' = Append(run_conversions, converters[c + 1])
              /\ total_conversions' = total_conversions + 1
              /\ c' = c + 1
              /\ UNCHANGED <<i, pc>>
         ELSE /\ i' = i + 1
              /\ pc' = "for_quantity"
              /\ UNCHANGED <<pending, written, op_after_close, run_conversions,
                             total_conversions, c>>
    /\ UNCHANGED <<envv, now, db, conn, retval, status, storev, quantity, days_ago,
                   created_at, ratev, recv, converters, total_deployments, total_recipients,
                   invocation, db_at_start, n_commit, n_rollback, n_close,
                   converter_positions>>

\* as Commit, on a script that replaces the tables' rows by the batch
Commit_Replace ==
    /\ pc = "commit"
    /\ db' = pending
    /\ pending' = NoRows
    /\ n_commit' = n_commit + 1
    /\ Touch
    /\ pc' = "verify"
    /\ UNCHANGED <<envv, now, conn, retval, status, storev, runv, ratev, recv, convv, totalv,
                   invocation, db_at_start, written, n_rollback, n_close, ghostv>>

\* line 123: conn.commit()
Commit ==
    /\ pc = "commit"
    /\ db' = AddRows(db, pending)
    /\ pending' = NoRows
    /\ n_commit' = n_commit + 1
    /\ Touch
    /\ pc' = "verify"
    /\ UNCHANGED <<envv, now, conn, retval, status, storev, runv, ratev, recv, convv, totalv,
                   invocation, db_at_start, written, n_rollback, n_close, ghostv>>

\* lines 125-159: the report and the verification SELECT
Verify ==
    /\ pc = "verify"
    /\ Touch
    /\ pc' = "finally"
    /\ UNCHANGED <<envv, now, dbv, retval, status, storev, runv, ratev, recv, convv, totalv,
                   invocation, db_at_start, written, n_commit, n_rollback, n_close, ghostv>>

\* the statement main() is about to execute can raise an Exception:
\* cursor.execute (lines 25, 39, 73, 95, 100, 113, 133) and conn.commit (line 123)
CanRaise ==
    \/ pc \in {"select_stores", "select_campaign", "insert_deployment", "insert_join",
               "commit", "verify"}
    \/ pc = "for_recipient" /\ j < quantity
    \/ pc = "for_converter" /\ c < Len(converters)

\* the statement raises: control goes to line 161, nothing it would have written is written
Raise ==
    /\ CanRaise
    /\ Touch
    /\ pc' = "except"
    /\ UNCHANGED <<envv, now, dbv, retval, status, storev, runv, ratev, recv, convv, totalv,
                   invocation, db_at_start, written, n_commit, n_rollback, n_close, ghostv>>

\* as ExceptRollback, closing the connection in the handler before the rollback
ExceptRollback_CloseFirst ==
    /\ pc = "except"
    /\ conn' = "closed"
    /\ n_close' = n_close + 1
    /\ pending' = NoRows
    /\ n_rollback' = n_rollback + 1
    /\ op_after_close' = TRUE
    /\ retval' = "1"
    /\ pc' = "finally"
    /\ UNCHANGED <<envv, now, db, status, storev, runv, ratev, recv, convv, totalv,
                   invocation, db_at_start, written, n_commit, ghostv>>

\* lines 161-164: report, conn.rollback(), return 1
ExceptRollback ==
    /\ pc = "except"
    /\ pending' = NoRows
    /\ n_rollback' = n_rollback + 1
    /\ Touch
    /\ retval' = "1"
    /\ pc' = "finally"
    /\ UNCHANGED <<envv, now, db, conn, status, storev, runv, ratev, recv, convv, totalv,
                   invocation, db_at_start, written, n_commit, n_close, ghostv>>

\* lines 165-168: conn.close() (SQLite discards what was not committed), then main()
\* returns the value of the return statement under way, or 0 from line 168
FinallyClose ==
    /\ pc = "finally"
    /\ conn' = "closed"
    /\ pending' = NoRows
    /\ n_close' = n_close + 1
    /\ status' = IF retval = "unset" THEN "0" ELSE retval
    /\ retval' = "unset"
    /\ pc' = "done"
    /\ FrameDrop
    /\ UNCHANGED <<envv, now, db, invocation, db_at_start, written, n_commit, n_rollback,
                   op_after_close>>

\* lines 170-171: the script is run again on the same database file
Rerun ==
    /\ pc = "done"
    /\ invocation < MaxInvocations
    /\ invocation' = invocation + 1
    /\ db_at_start' = db
    /\ written' = NoRows
    /\ n_commit' = 0 /\ n_rollback' = 0 /\ n_close' = 0
    /\ op_after_close' = FALSE
    /\ conn' = "none"
    /\ status' = "running"
    /\ pc' = "start"
    /\ UNCHANGED <<envv, now, db, pending, retval, storev, runv, ratev, recv, convv, totalv,
                   ghostv>>

----------------------------------------------------------------------------
(* Specifications *)

\* the rows the store SELECT can match: the configured names present in retail_stores
StoreTables ==
    {<<>>, <<StoreNames[1]>>, <<StoreNames[2], StoreNames[3]>>, StoreNames}

\* the state before the first run, whatever the configuration
InitCommon ==
    /\ campaigns \in {0, 1}
    /\ now = 0
    /\ db = NoRows /\ pending = NoRows /\ conn = "none"
    /\ pc = "start" /\ retval = "unset" /\ status = "running"
    /\ FrameInit
    /\ invocation = 1 /\ db_at_start = NoRows /\ written = NoRows
    /\ n_commit = 0 /\ n_rollback = 0 /\ n_close = 0 /\ op_after_close = FALSE

\* the script as configured; identifiers are not told apart (one token)
Init ==
    /\ InitCommon
    /\ retail_stores \in StoreTables
    /\ performance_tiers = Tiers
    /\ id_space = {1}

Next ==
    \/ Connect \/ SelectStores \/ SelectCampaign \/ ForStore \/ ForQuantity
    \/ InsertDeployment \/ ComputeRate \/ ForRecipient \/ InsertJoin \/ Sample
    \/ ForConverter \/ Commit \/ Verify \/ Raise \/ ExceptRollback \/ FinallyClose
    \/ Rerun

Spec == Init /\ [][Next]_vars

\* the generation step on arbitrary inputs: any base rate of GenBaseRates, any
\* quantity up to MaxRunQuantity, identifiers that can differ or collide
GenBaseRates ==
    {1, Milli \div 2, 5 * Milli, 50 * Milli, 83 * Milli, 250 * Milli}

GenTiers ==
    {[n \in Range(StoreNames) |-> [base_rate |-> b, quantities |-> <<q>>]] :
        b \in GenBaseRates, q \in 1..MaxRunQuantity}

InitGen ==
    /\ InitCommon
    /\ retail_stores \in {<<>>, <<StoreNames[1]>>}
    /\ performance_tiers \in GenTiers
    /\ id_space = 1..NumIds

SpecGen == InitGen /\ [][Next]_vars

----------------------------------------------------------------------------
(* Properties *)

\* the rows main() counted in its running totals, per table
Counted ==
    [t \in Tables |->
        CASE t = "deployments" -> total_deployments
          [] t = "recipients" -> total_recipients
          [] t = "joins" -> total_recipients
          [] t = "conversions" -> total_conversions]

\* the base rate of the store being processed
BaseRate == performance_tiers[store_name].base_rate

RECURSIVE SumSeq(_)
SumSeq(q) == IF q = <<>> THEN 0 ELSE Head(q) + SumSeq(Tail(q))

NoDuplicates(q) == \A x, y \in 1..Len(q) : q[x] = q[y] => x = y

\* C1: the batch is all-or-nothing. In every state, and so at termination after an
\* exception at any insert, the database holds either none of the rows this invocation
\* has written (no commit happened) or all of them (the commit happened); never a
\* proper non-empty part.
C1_AllOrNothing ==
    \/ n_commit = 0 /\ db = db_at_start
    \/ n_commit = 1 /\ db = AddRows(db_at_start, written)

\* an exception after conversions were inserted: rolled back, nothing persisted
C1_Witness ==
    /\ pc = "done" /\ n_rollback = 1 /\ n_commit = 0
    /\ written["conversions"] > 0 /\ written["joins"] > 0
    /\ db = db_at_start

\* C2: the conversion rows inserted for a run never exceed the run's quantity, which is
\* the number of recipient rows inserted for it; and the sampling step never raises: it
\* selects exactly min(conversion_count, number of tracking ids) converters, so exactly
\* the number of tracking ids when conversion_count exceeds it.
C2_ConversionsWithinQuantity ==
    /\ [](pc = "for_converter" =>
            /\ Len(recipient_tracking_ids) = quantity
            /\ Len(run_conversions) = c
            /\ c <= Len(converters)
            /\ Len(converters) <= quantity
            /\ Len(run_conversions) <= quantity)
    /\ [][pc = "sample" =>
            /\ pc' = "for_converter"
            /\ Len(converters') = Min(conversion_count', Len(recipient_tracking_ids))
            /\ (conversion_count' > Len(recipient_tracking_ids)
                  => Len(converters') = Len(recipient_tracking_ids))]_vars

\* a run whose conversion_count exceeds its quantity, every clamped converter inserted
C2_Witness ==
    /\ pc = "for_converter"
    /\ conversion_count > quantity
    /\ Len(run_conversions) = quantity
    /\ quantity >= 2

C4_Totals ==
    /\ 3 * SumSeq(SrcQuantities) = 24900
    /\ (pc = "verify" /\ stores = StoreNames) =>
        /\ written["deployments"] = 18
        /\ written["recipients"] = 3 * SumSeq(Quantities)
        /\ written["joins"] = written["recipients"]
        /\ total_deployments = written["deployments"]
        /\ total_recipients = written["recipients"]
        /\ db = AddRows(db_at_start, written)

\* a committed run over the three stores
C4_Witness ==
    /\ pc = "verify" /\ stores = StoreNames
    /\ total_deployments = 18 /\ total_recipients > 0

\* C5: when the store SELECT matches nothing, or there is no campaign, and no statement
\* raised, main() has returned None having written nothing: no insert, no commit, no
\* rollback, the database unchanged.
C5_EarlyReturn ==
    /\ (pc = "finally" /\ retval = "None") =>
        /\ Len(stores) = 0 \/ campaigns = 0
        /\ written = NoRows /\ pending = NoRows
        /\ n_commit = 0 /\ n_rollback = 0
        /\ db = db_at_start
    /\ (pc = "done" /\ n_rollback = 0 /\ (Len(retail_stores) = 0 \/ campaigns = 0)) =>
        /\ status = "None"
        /\ written = NoRows
        /\ n_commit = 0
        /\ db = db_at_start

\* the early return for a missing campaign, stores being present
C5_Witness ==
    /\ pc = "done" /\ status = "None"
    /\ Len(retail_stores) > 0 /\ campaigns = 0

\* C6: on every exit path the connection is closed exactly once, before main()
\* returns, and nothing is issued on it after the close.
C6_ClosedOnce ==
    /\ ~op_after_close
    /\ pc = "done" => (n_close = 1 /\ conn = "closed")
    /\ pc # "done" => (n_close = 0 /\ conn # "closed")

\* the exception path has closed the connection
C6_Witness ==
    /\ pc = "done" /\ status = "1" /\ n_rollback = 1 /\ n_close = 1
    /\ written["recipients"] > 0

\* C7 as stated: every conversion row of a run carries the tracking id of exactly one
\* recipient of that run, the converters are pairwise distinct recipients, and the
\* tracking ids of the run are unique.
C7_Original ==
    pc = "for_converter" =>
        /\ \A k \in 1..Len(run_conversions) :
              Cardinality({p \in 1..Len(recipient_tracking_ids) :
                              recipient_tracking_ids[p] = run_conversions[k]}) = 1
        /\ NoDuplicates(converter_positions)
        /\ NoDuplicates(recipient_tracking_ids)

\* C7 amended: every conversion row of a run carries the tracking id of the recipient
\* sampled for it, a recipient of that same run; the sampled recipients are pairwise
\* distinct (distinct positions of the run's list); the tracking ids themselves are
\* unique only when generate_id drew no value twice, and then each conversion row matches
\* exactly one recipient.
C7_ConvertersAreDistinctRecipients ==
    pc = "for_converter" =>
        /\ Len(converter_positions) = Len(converters)
        /\ \A k \in 1..Len(converter_positions) :
              converter_positions[k] \in 1..Len(recipient_tracking_ids)
        /\ NoDuplicates(converter_positions)
        /\ \A k \in 1..Len(run_conversions) :
              run_conversions[k] = recipient_tracking_ids[converter_positions[k]]
        /\ (NoDuplicates(recipient_tracking_ids) =>
              /\ NoDuplicates(run_conversions)
              /\ \A k \in 1..Len(run_conversions) :
                    Cardinality({p \in 1..Len(recipient_tracking_ids) :
                                    recipient_tracking_ids[p] = run_conversions[k]}) = 1)

\* two conversion rows of one run, for two recipients with different tracking ids
C7_Witness ==
    /\ pc = "for_converter"
    /\ Len(run_conversions) = 2
    /\ run_conversions[1] # run_conversions[2]

\* C8: seeding appends. Whenever the database changes it gains exactly the rows the
\* running invocation counted, nothing is replaced or removed, and after a successful
\* run the tables hold what they held before it plus the rows it wrote (6 deployments
\* per store), so a second successful run leaves two sets of rows.
C8_Appends ==
    /\ [][db' # db => db' = AddRows(db, Counted)]_vars
    /\ [](\A t \in Tables : db[t] >= db_at_start[t])
    /\ []((pc = "done" /\ status = "0") =>
            /\ db = AddRows(db_at_start, written)
            /\ written["deployments"] = 6 * Len(retail_stores))

\* a second successful run on top of a first one
C8_Witness ==
    /\ invocation = 2 /\ pc = "done" /\ status = "0"
    /\ db_at_start["deployments"] > 0
    /\ db["deployments"] = 2 * db_at_start["deployments"]
    /\ db["recipients"] = 2 * db_at_start["recipients"]

\* a run with index i > 0 of a store is being created (lines 67-70)
NextRunOfStore == pc = "for_quantity" /\ pc' = "insert_deployment" /\ i > 0

\* C9 as stated: within a store the runs are created in ascending index order, a lower
\* index being older (earlier created_at) than a higher one, consecutive indices a
\* fixed number of days apart.
C9_Original ==
    [][/\ i' \in {i, i + 1, 0}
       /\ NextRunOfStore =>
            /\ created_at' > created_at
            /\ days_ago' - days_ago = SpacingDays]_vars

\* C9 amended: within a store the runs are created in ascending index order; run i is
\* stamped (10 + 15 * i) days before the time it is created, so consecutive offsets are
\* 15 days apart and a lower index is the newer run: it is later than the next one by 15
\* days less the time that passed between the two (later whenever that is under 15 days).
C9_HigherIndexIsOlder ==
    [][/\ i' \in {i, i + 1, 0}
       /\ NextRunOfStore =>
            /\ days_ago' = FirstOffsetDays + i * SpacingDays
            /\ days_ago' - days_ago = SpacingDays
            /\ created_at' = now' - days_ago' * SecondsPerDay
            /\ created_at - created_at' = SpacingDays * SecondsPerDay - (now' - now)
            /\ (now' - now < SpacingDays * SecondsPerDay => created_at' < created_at)]_vars

\* the last run of a store, created after the clock moved
C9_Witness ==
    /\ pc = "insert_deployment" /\ i = 5
    /\ days_ago = 85
    /\ now = 1
    /\ created_at = 1 - 85 * SecondsPerDay

\* C10: the returned status reflects what was persisted: 1 only if none of this
\* invocation's rows are persisted, 0 only if the commit was reached.
C10_StatusReflectsPersistence ==
    pc = "done" =>
        /\ (status = "1" => db = db_at_start)
        /\ (status = "0" => n_commit = 1)

====
